---- MODULE Spec2Model ----
(***************************************************************************)
(* anerbot: the signed-webhook enqueue path.                               *)
(*                                                                         *)
(* Two Queue entry points exist in the repository: the function of package *)
(* queue (src/queue/queue.go) and the older one of package anerbot         *)
(* (src/queue.go).  Each is deployed as its own process.  Strings are      *)
(* sequences of one-character strings, so that prefix trimming, integer    *)
(* parsing and hex decoding are computed character by character.  Reply    *)
(* texts built with fmt.Sprintf are sequences whose literal parts are      *)
(* single tokens and whose %s parts are the characters of the argument.    *)
(***************************************************************************)
EXTENDS Integers, Sequences, FiniteSets, TLC

(***************************************************************************)
(* Bounds of the model.                                                    *)
(***************************************************************************)
\* Clock resolution: time.Since has sub-second precision, header timestamps
\* are whole seconds.
TicksPerSecond == 2
\* The wall clock, in seconds, at which the first request may arrive.
NowSeconds == 1000

(***************************************************************************)
(* Characters and bytes.                                                   *)
(***************************************************************************)
Digits == <<"0", "1", "2", "3", "4", "5", "6", "7", "8", "9">>
HexLower == Digits \o <<"a", "b", "c", "d", "e", "f">>
HexUpper == Digits \o <<"A", "B", "C", "D", "E", "F">>

\* The characters that occur in secrets, headers and bodies; []byte(s) gives
\* each the byte of its position.
Alphabet == HexLower \o <<"A", "B", "C", "D", "E", "F">>
            \o <<":", "=", "v", "k", "x", "g", "z", "+", "-", " ", "&">>

IndexOf(c, s) == CHOOSE i \in 1..Len(s) : s[i] = c

Bytes(s) == [i \in 1..Len(s) |-> IndexOf(s[i], Alphabet)]

\* strings.HasPrefix
HasPrefix(s, prefix) ==
    /\ Len(s) >= Len(prefix)
    /\ SubSeq(s, 1, Len(prefix)) = prefix

\* strings.TrimPrefix
TrimPrefix(s, prefix) ==
    IF HasPrefix(s, prefix) THEN SubSeq(s, Len(prefix) + 1, Len(s)) ELSE s

IsDigit(c) == \E i \in 1..Len(Digits) : Digits[i] = c

RECURSIVE DigitsValue(_)
DigitsValue(s) ==
    IF s = <<>> THEN 0
    ELSE 10 * DigitsValue(SubSeq(s, 1, Len(s) - 1))
         + (IndexOf(s[Len(s)], Digits) - 1)

\* strconv.ParseInt(s, 10, 64): an optional sign and at least one decimal
\* digit; anything else is a syntax error.
ParseInt(s) ==
    LET signed == s # <<>> /\ s[1] \in {"+", "-"}
        digits == IF signed THEN Tail(s) ELSE s
    IN  IF digits = <<>> \/ \E i \in 1..Len(digits) : ~IsDigit(digits[i])
        THEN [err |-> TRUE, value |-> 0]
        ELSE [err |-> FALSE,
              value |-> IF signed /\ s[1] = "-"
                        THEN 0 - DigitsValue(digits) ELSE DigitsValue(digits)]

IsHex(c) ==
    \/ \E i \in 1..Len(HexLower) : HexLower[i] = c
    \/ \E i \in 1..Len(HexUpper) : HexUpper[i] = c

HexValue(c) ==
    IF \E i \in 1..Len(HexLower) : HexLower[i] = c
    THEN IndexOf(c, HexLower) - 1 ELSE IndexOf(c, HexUpper) - 1

\* hex.DecodeString: pairs of hexadecimal digits of either case; an odd
\* length or any other character is an error.
DecodeString(s) ==
    IF Len(s) % 2 # 0 \/ \E i \in 1..Len(s) : ~IsHex(s[i])
    THEN [err |-> TRUE, bytes |-> <<>>]
    ELSE [err |-> FALSE,
          bytes |-> [i \in 1..(Len(s) \div 2) |->
                        16 * HexValue(s[2 * i - 1]) + HexValue(s[2 * i])]]

(***************************************************************************)
(* Signature verification.                                                 *)
(***************************************************************************)
version == <<"v", "0">>

\* The five minutes of checkTimestamp.
MaxAgeMinutes == 5

\* HMAC-SHA256 keyed by secret over base, as a keyed function without
\* collisions: the digest determines both the key and the message.
getSignature(base, secret) == Bytes(secret) \o <<0>> \o Bytes(base)

\* time.Since(time.Unix(timeStamp, 0)) in ticks, and t.Minutes() <= 5.
checkTimestamp(timeStamp, clock) ==
    LET t == clock - timeStamp * TicksPerSecond
    IN  [ageOk |-> t <= MaxAgeMinutes * 60 * TicksPerSecond, age |-> t]

\* verifyWebHook(r, slackSigningSecret) called when the clock reads `clock`.
\* The result is the pair (bool, error); err names the failing check, "nil"
\* when the function returned no error.
verifyWebHook(timeStamp, slackSignature, body, slackSigningSecret, clock) ==
    LET parsed == ParseInt(timeStamp)
        baseString == version \o <<":">> \o timeStamp \o <<":">> \o body
        signature == getSignature(baseString, slackSigningSecret)
        trimmed == TrimPrefix(slackSignature, version \o <<"=">>)
        signatureInHeader == DecodeString(trimmed)
    IN  IF parsed.err
        THEN [ok |-> FALSE, err |-> "strconv.ParseInt"]
        ELSE IF ~checkTimestamp(parsed.value, clock).ageOk
        THEN [ok |-> FALSE, err |-> "checkTimestamp"]
        ELSE IF timeStamp = <<>> \/ slackSignature = <<>>
        THEN [ok |-> FALSE, err |-> "blank"]
        ELSE IF signatureInHeader.err
        THEN [ok |-> FALSE, err |-> "hex.DecodeString"]
        ELSE [ok |-> signature = signatureInHeader.bytes, err |-> "nil"]

(***************************************************************************)
(* The HTTP response writer.                                               *)
(***************************************************************************)
\* status is the status line sent (0: none yet), codes every WriteHeader
\* call in order, body the writes in order.
NewWriter == [status |-> 0, codes |-> <<>>, body |-> <<>>]

\* w.WriteHeader(code): only the first call sets the status.
WriteHeader(w, code) ==
    [w EXCEPT !.status = IF w.status = 0 THEN code ELSE w.status,
              !.codes = Append(w.codes, code)]

\* w.Write: a write before any WriteHeader sends status 200.
Write(w, data) ==
    [w EXCEPT !.status = IF w.status = 0 THEN 200 ELSE w.status,
              !.body = Append(w.body, data)]

\* http.Error(w, error, code)
Error(w, error, code) ==
    Write(WriteHeader(w, code), [kind |-> "plain", text |-> <<error>>])

\* json.NewEncoder(w).Encode(res) of a queueResponse
Encode(w, res) ==
    Write(w, [kind |-> "json", response_type |-> res.ResponseType,
              text |-> res.Text])

queueResponse(text) == [ResponseType |-> "ephemeral", Text |-> text]

\* fmt.Sprintf("Anerbot needs to run in <#%s>, try again there! :broken_heart:", ...)
WrongChannelText(channel) ==
    <<"Anerbot needs to run in <#">> \o channel
        \o <<">, try again there! :broken_heart:">>

EmptyQueryText == <<"Unable search for an empty string! :this-is-fine:">>

\* The acknowledgment without the query it announces.
HangTightText_NoQuery(queryText) ==
    <<"Hang tight - gathering results for \"">> \o <<"\".">>

\* fmt.Sprintf(`Hang tight - gathering results for "%s".`, queryText)
HangTightText(queryText) ==
    <<"Hang tight - gathering results for \"">> \o queryText \o <<"\".">>

(***************************************************************************)
(* The message handed to the queue.                                        *)
(***************************************************************************)
queueMessage(query, responseUrl) == [Query |-> query, ResponseUrl |-> responseUrl]

NoMessage == [Query |-> <<"-">>, ResponseUrl |-> <<"-">>]

\* A byte that is no valid UTF-8, and the replacement rune U+FFFD.
InvalidByte == "\\xff"
ReplacementRune == "\\ufffd"

\* encoding/json writes a Go string as a JSON string coerced to valid UTF-8:
\* every invalid byte becomes the replacement rune.
ToValidUTF8(str) ==
    [k \in 1..Len(str) |-> IF str[k] = InvalidByte THEN ReplacementRune ELSE str[k]]

JSONString(str) == [type |-> "string", value |-> ToValidUTF8(str)]
JSONNumber == [type |-> "number", value |-> <<"5">>]

\* The members a queueMessage is read from; a document may lack either.
Tags == {"query", "response_url"}
Absent == [type |-> "absent", value |-> <<>>]

\* A JSON document: an object with its members, or bytes that are no JSON.
JSONObject(members) == [kind |-> "object", members |-> members]
NotJSON == [kind |-> "garbage", members |-> [tag \in Tags |-> Absent]]

\* json.Marshal(message): the object keyed by the struct's json tags.
Marshal(message) ==
    JSONObject([tag \in Tags |->
                    IF tag = "query" THEN JSONString(message.Query)
                    ELSE JSONString(message.ResponseUrl)])

\* The prefix step of Queue: strings.HasPrefix(queryText, "search") guards
\* strings.TrimPrefix(queryText, "search ").
SearchWord == <<"s", "e", "a", "r", "c", "h">>

\* Normalize that strips the word without its space.
Normalize_TrimsWord(queryText) ==
    IF HasPrefix(queryText, SearchWord)
    THEN TrimPrefix(queryText, SearchWord)
    ELSE queryText

Normalize(queryText) ==
    IF HasPrefix(queryText, SearchWord)
    THEN TrimPrefix(queryText, SearchWord \o <<" ">>)
    ELSE queryText

\* The legacy prefix of a query, and the query without one leading prefix.
SearchPrefix == <<"s", "e", "a", "r", "c", "h", " ">>

CanonicalQuery(queryText) ==
    IF Len(queryText) >= Len(SearchPrefix)
       /\ SubSeq(queryText, 1, Len(SearchPrefix)) = SearchPrefix
    THEN SubSeq(queryText, Len(SearchPrefix) + 1, Len(queryText))
    ELSE queryText

(***************************************************************************)
(* The two Queue handlers.  A handler reads the request in three parts:    *)
(* the query string, method and body on entry, the two signature headers   *)
(* and the raw body in verifyWebHook, and the parsed form afterwards.  The *)
(* position of an invocation is                                            *)
(*   "verify"      before the call of verifyWebHook,                       *)
(*   "validate"    verifyWebHook returned (true, nil),                     *)
(*   "publishing"  publishMessage(message) has been called,                *)
(*   "done"        the handler returned,                                   *)
(*   "fatal"       log.Fatalf ended the process,                           *)
(*   "panic"       an index out of range ended the handler.                *)
(***************************************************************************)
QueuePkg == "queue/queue.go"
AnerbotPkg == "queue.go"
EntryPoints == {QueuePkg, AnerbotPkg}

\* Queue that reads the body before it looks at the ping parameter.
QueueEntry_PingAfterBody(entry, w) ==
    IF entry.bodyErr
    THEN [pc |-> "fatal", w |-> w, fatal |-> "Couldn't read request body"]
    ELSE IF entry.ping
    THEN [pc |-> "done", w |-> w, fatal |-> "none"]
    ELSE IF entry.method # "POST"
    THEN [pc |-> "done", w |-> Error(w, "Only POST requests are accepted", 405),
          fatal |-> "none"]
    ELSE IF entry.formErr
    THEN [pc |-> "fatal", w |-> w, fatal |-> "ParseForm"]
    ELSE [pc |-> "verify", w |-> w, fatal |-> "none"]

\* Queue of package queue up to the call of verifyWebHook.  entry is the
\* record [ping, bodyErr, method, formErr] of what these statements read.
QueueEntry(entry, w) ==
    IF entry.ping
    THEN [pc |-> "done", w |-> w, fatal |-> "none"]
    ELSE IF entry.bodyErr
    THEN [pc |-> "fatal", w |-> w, fatal |-> "Couldn't read request body"]
    ELSE IF entry.method # "POST"
    THEN [pc |-> "done", w |-> Error(w, "Only POST requests are accepted", 405),
          fatal |-> "none"]
    ELSE IF entry.formErr
    THEN [pc |-> "fatal", w |-> w, fatal |-> "ParseForm"]
    ELSE [pc |-> "verify", w |-> w, fatal |-> "none"]

\* Queue of package anerbot up to the call of verifyWebHook.
anerbotQueueEntry(entry, w) ==
    LET w1 == IF entry.method # "POST"
              THEN Error(w, "Only POST requests are accepted", 405) ELSE w
    IN  IF entry.bodyErr
        THEN [pc |-> "fatal", w |-> w, fatal |-> "Couldn't read request body"]
        ELSE IF entry.formErr
        THEN [pc |-> "fatal", w |-> Error(w1, "Couldn't parse form", 400),
              fatal |-> "ParseForm"]
        ELSE [pc |-> "verify", w |-> w1, fatal |-> "none"]

\* QueueVerify that goes on whatever verifyWebHook returned.
QueueVerify_GoesOn(v) == [pc |-> "validate", fatal |-> "none"]

\* QueueVerify without the check of the boolean result.
QueueVerify_IgnoresMismatch(v) ==
    IF v.err # "nil"
    THEN [pc |-> "fatal", fatal |-> "verifyWebhook"]
    ELSE [pc |-> "validate", fatal |-> "none"]

\* Both handlers: the call of verifyWebHook and the two checks of its result.
QueueVerify(v) ==
    IF v.err # "nil"
    THEN [pc |-> "fatal", fatal |-> "verifyWebhook"]
    ELSE IF ~v.ok
    THEN [pc |-> "fatal", fatal |-> "signatures did not match"]
    ELSE [pc |-> "validate", fatal |-> "none"]

\* Queue of package queue from the check of the form to the call of
\* publishMessage.  form maps text, channel_id and response_url to the list
\* of their values.
QueueValidate(form, w, channel) ==
    LET w1 == WriteHeader(w, 200)
    IN  IF Len(form.text) = 0
        THEN [pc |-> "fatal", w |-> w, fatal |-> "empty text in form",
              message |-> NoMessage]
        ELSE IF Len(form.channel_id) = 0
        THEN [pc |-> "panic", w |-> w1, fatal |-> "none", message |-> NoMessage]
        ELSE IF form.channel_id[1] # channel
        THEN [pc |-> "done",
              w |-> Encode(w1, queueResponse(WrongChannelText(channel))),
              fatal |-> "none", message |-> NoMessage]
        ELSE IF form.text[1] = <<>>
        THEN [pc |-> "done", w |-> Encode(w1, queueResponse(EmptyQueryText)),
              fatal |-> "none", message |-> NoMessage]
        ELSE IF Len(form.response_url) = 0
        THEN [pc |-> "panic", w |-> w1, fatal |-> "none", message |-> NoMessage]
        ELSE [pc |-> "publishing", w |-> w1, fatal |-> "none",
              message |-> queueMessage(Normalize(form.text[1]),
                                       form.response_url[1])]

\* Queue of package anerbot from the check of the form to the call of
\* publishMessage.
anerbotQueueValidate(form, w) ==
    LET w1 == IF form.text[1] = <<>>
              THEN Error(w, "Unable to search for an empty string", 400) ELSE w
    IN  IF Len(form.text) = 0
        THEN [pc |-> "fatal", w |-> w, fatal |-> "empty text in form",
              message |-> NoMessage]
        ELSE IF Len(form.response_url) = 0
        THEN [pc |-> "panic", w |-> w1, fatal |-> "none", message |-> NoMessage]
        ELSE [pc |-> "publishing", w |-> w1, fatal |-> "none",
              message |-> queueMessage(Normalize(form.text[1]),
                                       form.response_url[1])]

\* Queue of package queue after publishMessage returned nil.
QueueAck(w, message) ==
    Encode(w, queueResponse(HangTightText(message.Query)))

\* Queue of package anerbot after publishMessage returned nil.
anerbotQueueAck(w, message) ==
    Encode(WriteHeader(w, 201), queueResponse(HangTightText(message.Query)))

\* publishMessage that does not wait for the result of the publish.
publishMessage_IgnoresResult(message, published, outcome) ==
    [err |-> IF outcome = "NewClient" THEN "unable to create pubsub client"
             ELSE "nil",
     topic |-> IF outcome \in {"ok", "GetUnconfirmed"}
               THEN Append(published, Marshal(message)) ELSE published]

\* publishMessage(message) on a topic holding `published`.  outcome is what
\* the Pub/Sub client meets: "ok", "NewClient" (no client could be created),
\* "Get" (the publish was refused) or "GetUnconfirmed" (the service stored the
\* message and the confirmation was lost).  err is the error returned.
publishMessage(message, published, outcome) ==
    [err |-> IF outcome = "ok" THEN "nil"
             ELSE IF outcome = "NewClient" THEN "unable to create pubsub client"
             ELSE "unable to get published result",
     topic |-> IF outcome \in {"ok", "GetUnconfirmed"}
               THEN Append(published, Marshal(message)) ELSE published]

PublishOutcomes == {"ok", "NewClient", "Get", "GetUnconfirmed"}

(***************************************************************************)
(* Requests.                                                               *)
(***************************************************************************)
\* How many requests arrive in a run, and how far the clock advances.
MaxRequests == 2
MaxTicks == 1

Slots == {1}

SlackSecret == <<"k">>
AllowedChannel == <<"C", "1">>
OtherChannel == <<"C", "2">>
Url == <<"https://hooks.slack.test/commands/1">>

RECURSIVE Itoa(_)
Itoa(n) ==
    IF n < 10 THEN <<Digits[n + 1]>>
    ELSE Itoa(n \div 10) \o <<Digits[(n % 10) + 1]>>

\* hex.EncodeToString with the digits of `table`.
Hex(bytes, table) ==
    [i \in 1..(2 * Len(bytes)) |->
        IF i % 2 = 1 THEN table[bytes[(i + 1) \div 2] \div 16 + 1]
        ELSE table[(bytes[i \div 2] % 16) + 1]]

\* The signature a sender holding `key` computes for the request.
Sign(key, timeStamp, body, table) ==
    Hex(getSignature(version \o <<":">> \o timeStamp \o <<":">> \o body, key),
        table)

WindowSeconds == MaxAgeMinutes * 60

\* X-Slack-Request-Timestamp: absent, not a number, and the seconds around
\* both ends of the window.
TimeStamps ==
    {<<>>, <<"z">>}
    \cup {Itoa(NowSeconds + d) :
            d \in {0 - (WindowSeconds + 1), 0 - WindowSeconds, 0,
                   WindowSeconds + 1}}

Bodies == {<<>>, <<"g">>}

\* X-Slack-Signature: the signature of Slack in lower case, in upper case and
\* without the "v0=" prefix, the signature of a sender with another key or
\* with the empty key, no hexadecimal string, and no header.
Signatures(timeStamp, body) ==
    {version \o <<"=">> \o Sign(key, timeStamp, body, HexLower) :
        key \in {SlackSecret, <<"x">>, <<>>}}
    \cup {version \o <<"=">> \o Sign(SlackSecret, timeStamp, body, HexUpper),
          Sign(SlackSecret, timeStamp, body, HexLower),
          <<"v", "0", "=", "z", "z">>,
          <<>>}

Entries ==
    [ping : BOOLEAN, bodyErr : BOOLEAN, method : {"POST", "GET"},
     formErr : BOOLEAN]

Texts == {<<>>, <<" ">>, <<"g">>, SearchWord \o <<" ", "g">>}

Optional(S) == {<<>>} \cup {<<x>> : x \in S}

Forms ==
    [text : Optional(Texts),
     channel_id : Optional({AllowedChannel, OtherChannel}),
     response_url : Optional({Url})]

(***************************************************************************)
(* Query texts for the checks of the form taken alone: every concatenation *)
(* of at most MaxWords words.                                              *)
(***************************************************************************)
MaxWords == 3

Words == {SearchWord \o <<" ">>, SearchWord, <<"i", "n", "g">>, <<"g">>}

RECURSIVE Concat(_)
Concat(ws) == IF ws = <<>> THEN <<>> ELSE Head(ws) \o Concat(Tail(ws))

QueryTexts ==
    {Concat(ws) : ws \in UNION {[1..n -> Words] : n \in 0..MaxWords}}

\* A response_url that url.Parse refuses: "missing protocol scheme".
BadUrl == <<":", "b", "a", "d">>

ProbeForms ==
    [text : Optional(QueryTexts),
     channel_id : Optional({AllowedChannel, OtherChannel}),
     response_url : Optional({Url, BadUrl})]

\* url.Parse(rawurl), as http.NewRequest calls it: a first character ':'
\* is the error "missing protocol scheme".
ParseURL(rawurl) == [err |-> HasPrefix(rawurl, <<":">>)]

(***************************************************************************)
(* Response: the function run for every message delivered from the topic.  *)
(***************************************************************************)
ResponsePkg == "response/response.go"
AnerbotResponsePkg == "response.go"
ResponsePkgs == {ResponsePkg, AnerbotResponsePkg}

\* json.Unmarshal that reads the query from the other member.
Unmarshal_OtherTag(data) ==
    LET Read(tag) == IF data.members[tag].type = "string"
                     THEN data.members[tag].value ELSE <<>>
    IN  [err |-> data.kind # "object"
                 \/ \E tag \in Tags :
                       data.members[tag].type \notin {"string", "absent"},
         message |-> [Query |-> Read("response_url"),
                      ResponseUrl |-> Read("response_url")]]

\* json.Unmarshal(m.Data, &message): an error for bytes that are no JSON
\* object and for a member of the struct that is not a JSON string; a member
\* that is absent leaves its field "".
Unmarshal(data) ==
    LET Read(tag) == IF data.members[tag].type = "string"
                     THEN data.members[tag].value ELSE <<>>
    IN  [err |-> data.kind # "object"
                 \/ \E tag \in Tags :
                       data.members[tag].type \notin {"string", "absent"},
         message |-> [Query |-> Read("query"),
                      ResponseUrl |-> Read("response_url")]]

\* AIRTABLE_TABLE_ID and AIRTABLE_VIEW_ID as init() read them.
airtableTableID == <<"t", "b", "l">>
airtableViewID == <<"v", "i", "w">>

\* A record of Airtable as ListRecords decodes it.
feature(id, name, roadmap, plan) ==
    [AirtableID |-> id,
     Fields |-> [Feature |-> name, Roadmap |-> roadmap,
                 TeamResponsible |-> <<>>, Plan |-> plan, FeatureFlag |-> <<>>,
                 Entitlements |-> <<>>, Documentation |-> <<>>]]

Features ==
    {feature(<<"r", "1">>, <<"a">>, <<"x">>, <<"g">>),
     feature(<<"r", "2">>, <<"b">>, <<>>, <<>>)}

\* fmt.Sprintf(label + " %s\r\n", field) for a field that is not "".
FieldLine(label, field) ==
    IF field = <<>> THEN <<>> ELSE <<label>> \o field \o <<"\r\n">>

\* The attachment buildSlackResponse appends for the feature v.
attachment(v) ==
    LET link == <<"https://airtable.com/">> \o airtableTableID \o <<"/">>
                    \o airtableViewID \o <<"/">> \o v.AirtableID
        value == FieldLine(":sparkles: *Roadmap:* ", v.Fields.Roadmap)
                 \o FieldLine(":one-team: *Team(s):* ", v.Fields.TeamResponsible)
                 \o FieldLine(":moneybag: *Plan:* ", v.Fields.Plan)
                 \o FieldLine(":triangular_flag_on_post: *Feature Flag:* ",
                              v.Fields.FeatureFlag)
                 \o FieldLine(":crown: *Entitlements:* ", v.Fields.Entitlements)
                 \o FieldLine(":books: *Documentation:* ", v.Fields.Documentation)
    IN  [Title |-> v.Fields.Feature,
         Fallback |-> v.Fields.Feature \o <<": ">> \o link,
         TitleLink |-> link,
         Fields |-> <<[Title |-> <<>>, Value |-> value]>>]

\* ReplaceOriginal is a string in package response and a bool in package
\* anerbot.
ReplaceOriginal(pkg, set) ==
    IF pkg = ResponsePkg
    THEN [type |-> "string", value |-> IF set THEN "true" ELSE ""]
    ELSE [type |-> "bool", value |-> IF set THEN "true" ELSE "false"]

\* buildSlackResponse that appends every attachment at the front.
buildSlackResponse_Prepends(f, pkg) ==
    [ReplaceOriginal |-> ReplaceOriginal(pkg, TRUE),
     ResponseType |-> "ephemeral",
     Text |-> IF Len(f) = 0
              THEN <<"No items found, try another search term">>
              ELSE <<"Found ">> \o Itoa(Len(f))
                       \o <<" items! Click on any result to learn more.">>,
     Attachments |-> [k \in 1..Len(f) |-> attachment(f[Len(f) + 1 - k])]]

\* buildSlackResponse(f) of package pkg.
buildSlackResponse(f, pkg) ==
    [ReplaceOriginal |-> ReplaceOriginal(pkg, TRUE),
     ResponseType |-> "ephemeral",
     Text |-> IF Len(f) = 0
              THEN <<"No items found, try another search term">>
              ELSE <<"Found ">> \o Itoa(Len(f))
                       \o <<" items! Click on any result to learn more.">>,
     Attachments |-> [k \in 1..Len(f) |-> attachment(f[k])]]

\* The message of sendFailureMessage.
FailureText == <<"Failed to fetch records from Airtable :sob:">>

failureResponse(pkg) ==
    [ReplaceOriginal |-> ReplaceOriginal(pkg, FALSE),
     ResponseType |-> "ephemeral",
     Text |-> FailureText,
     Attachments |-> <<>>]

\* json.Marshal of a slackResponse: "attachments" is omitted when empty.
MarshalResponse(res) ==
    [replace_original |-> res.ReplaceOriginal,
     response_type |-> res.ResponseType,
     text |-> ToValidUTF8(res.Text),
     attachments |-> res.Attachments,
     members |-> {"replace_original", "response_type", "text"}
                 \cup (IF res.Attachments = <<>> THEN {} ELSE {"attachments"})]

NoResponse ==
    [ReplaceOriginal |-> [type |-> "none", value |-> ""],
     ResponseType |-> "none", Text |-> <<>>, Attachments |-> <<>>]

\* strings.ToLower for the characters of the model.
ToLower(str) ==
    [k \in 1..Len(str) |->
        IF \E n \in 1..Len(HexUpper) : HexUpper[n] = str[k]
        THEN HexLower[IndexOf(str[k], HexUpper)] ELSE str[k]]

\* Response up to the call of queryAirtable.
Response_Unmarshal_IgnoresError(r) ==
    [r EXCEPT !.pc = "querying", !.message = Unmarshal(r.data).message]

Response_Unmarshal(r) ==
    LET u == Unmarshal(r.data)
    IN  IF u.err
        THEN [r EXCEPT !.pc = "done", !.ret = "could not unmarshal message"]
        ELSE [r EXCEPT !.pc = "querying", !.message = u.message]

\* Response that returns the error of queryAirtable without a notice.
Response_Lookup_NoNotice(r, o) ==
    LET r1 == [r EXCEPT !.lookups = Append(@, ToLower(r.message.Query)),
                        !.lookup = o.err, !.records = o.records]
        res == buildSlackResponse(o.records, r.pkg)
    IN  IF o.err # "nil"
        THEN [r1 EXCEPT !.pc = "done", !.ret = "error querying Airtable"]
        ELSE IF ParseURL(r.message.ResponseUrl).err
        THEN [r1 EXCEPT !.pc = "done", !.res = res,
                        !.ret = "unable to build new HTTP request"]
        ELSE [r1 EXCEPT !.pc = "posting", !.res = res]

\* Response from the return of queryAirtable to the next call of client.Do:
\* in sendFailureMessage when the lookup failed, in Response otherwise.  o is
\* what queryAirtable returns.  http.NewRequest refuses a URL that does not
\* parse; sendFailureMessage answers that with log.Fatalf.
Response_Lookup(r, o) ==
    LET r1 == [r EXCEPT !.lookups = Append(@, ToLower(r.message.Query)),
                        !.lookup = o.err, !.records = o.records]
        res == buildSlackResponse(o.records, r.pkg)
    IN  IF o.err # "nil"
        THEN IF ParseURL(r.message.ResponseUrl).err
             THEN [r1 EXCEPT !.pc = "fatal",
                             !.fatal = "unable to build new HTTP request"]
             ELSE [r1 EXCEPT !.pc = "failing"]
        ELSE IF ParseURL(r.message.ResponseUrl).err
        THEN [r1 EXCEPT !.pc = "done", !.res = res,
                        !.ret = "unable to build new HTTP request"]
        ELSE [r1 EXCEPT !.pc = "posting", !.res = res]

\* A call of client.Do with the request and what came of it.
Post(url, body, o) == [url |-> url, body |-> body, outcome |-> o]

\* sendFailureMessage that sends the notice once more when client.Do fails.
sendFailureMessage_Retries(r, o) ==
    LET r1 == [r EXCEPT !.posts = Append(@,
                   Post(r.message.ResponseUrl,
                        MarshalResponse(failureResponse(r.pkg)), o))]
    IN  IF o.err /\ r.posts = <<>>
        THEN [r1 EXCEPT !.pc = "failing"]
        ELSE IF o.err
        THEN [r1 EXCEPT !.pc = "fatal",
                        !.fatal = "unable to send message to Slack"]
        ELSE [r1 EXCEPT !.pc = "done", !.ret = "error querying Airtable"]

\* sendFailureMessage from the return of client.Do, and Response after it.
sendFailureMessage(r, o) ==
    LET r1 == [r EXCEPT !.posts = Append(@,
                   Post(r.message.ResponseUrl,
                        MarshalResponse(failureResponse(r.pkg)), o))]
    IN  IF o.err
        THEN [r1 EXCEPT !.pc = "fatal",
                        !.fatal = "unable to send message to Slack"]
        ELSE [r1 EXCEPT !.pc = "done", !.ret = "error querying Airtable"]

\* Response that looks up again when the callback target answers 500.
Response_Post_LooksUpAgain(r, o) ==
    LET r1 == [r EXCEPT !.posts = Append(@,
                   Post(r.message.ResponseUrl, MarshalResponse(r.res), o))]
    IN  IF o.err
        THEN [r1 EXCEPT !.pc = "done",
                        !.ret = "unable to send message to Slack"]
        ELSE IF o.status >= 500
        THEN [r1 EXCEPT !.pc = "querying"]
        ELSE [r1 EXCEPT !.pc = "done", !.ret = "nil"]

\* Response that takes a status of 400 and above for a failure.
Response_Post_ChecksStatus(r, o) ==
    LET r1 == [r EXCEPT !.posts = Append(@,
                   Post(r.message.ResponseUrl, MarshalResponse(r.res), o))]
    IN  IF o.err \/ o.status >= 400
        THEN [r1 EXCEPT !.pc = "done",
                        !.ret = "unable to send message to Slack"]
        ELSE [r1 EXCEPT !.pc = "done", !.ret = "nil"]

\* Response from the return of client.Do for the results.
Response_Post(r, o) ==
    LET r1 == [r EXCEPT !.posts = Append(@,
                   Post(r.message.ResponseUrl, MarshalResponse(r.res), o))]
    IN  IF o.err
        THEN [r1 EXCEPT !.pc = "done",
                        !.ret = "unable to send message to Slack"]
        ELSE [r1 EXCEPT !.pc = "done", !.ret = "nil"]

(***************************************************************************)
(* State.                                                                  *)
(***************************************************************************)
VARIABLES
    inv,             \* the invocation of each slot
    alive,           \* per entry point: its process has not exited
    topic,           \* the messages the topic holds, in order
    now,             \* the clock, in ticks
    served,          \* the number of requests that have arrived
    slackSigSecret,  \* SLACK_SIG_SECRET as init() read it
    slackChannelID,  \* SLACK_CHANNEL_ID as init() read it
    resp,            \* the invocation of Response
    respAlive,       \* per package: the process of Response has not exited
    delivered,       \* the number of deliveries made by the queue
    prev,            \* what Response did with the delivery before a redelivery
    probe            \* a form handed to the checks of Queue, and their outcome

queueVars == <<inv, alive, topic, now, served, slackSigSecret, slackChannelID>>
responseVars == <<resp, respAlive, delivered, prev>>
vars == <<queueVars, responseVars, probe>>

NoEntry == [ping |-> FALSE, bodyErr |-> FALSE, method |-> "none", formErr |-> FALSE]
NoForm == [text |-> <<>>, channel_id |-> <<>>, response_url |-> <<>>]
Unread == <<"unread">>
NotVerified == [ok |-> FALSE, err |-> "not called"]

Idle ==
    [pc |-> "idle", ep |-> "none", entry |-> NoEntry,
     timeStamp |-> Unread, slackSignature |-> Unread, body |-> Unread,
     at |-> 0, verify |-> NotVerified,
     formRead |-> FALSE, form |-> NoForm,
     w |-> NewWriter, fatal |-> "none", message |-> NoMessage,
     publish |-> "none"]

IdleResponse ==
    [pc |-> "idle", pkg |-> "none", data |-> NotJSON, sent |-> NoMessage,
     message |-> NoMessage, lookups |-> <<>>, lookup |-> "none",
     records |-> <<>>, res |-> NoResponse, posts |-> <<>>, ret |-> "none",
     fatal |-> "none"]

\* What an invocation of Response was given and what it sent: the message,
\* the result of the lookup, the queries and the requests to the callback
\* target.
Summary(r) ==
    [pkg |-> r.pkg, data |-> r.data, lookup |-> r.lookup, records |-> r.records,
     lookups |-> r.lookups,
     posts |-> [k \in 1..Len(r.posts) |->
                   [url |-> r.posts[k].url, body |-> r.posts[k].body]]]

\* The handler before it has read the form.
Unprobed ==
    [pc |-> "validate", w |-> NewWriter, fatal |-> "none", message |-> NoMessage]

NoProbe == [ep |-> "none", form |-> NoForm, out |-> Unprobed]

\* No delivery is under way and no form is probed.
ResponseIdle ==
    /\ resp = IdleResponse
    /\ respAlive = [pkg \in ResponsePkgs |-> TRUE]
    /\ delivered = 0
    /\ prev = Summary(IdleResponse)

\* init() of either package: os.Getenv gives "" for a variable that is not set.
Init ==
    /\ ResponseIdle
    /\ probe = NoProbe
    /\ inv = [i \in Slots |-> Idle]
    /\ alive = [ep \in EntryPoints |-> TRUE]
    /\ topic = <<>>
    /\ now = NowSeconds * TicksPerSecond
    /\ served = 0
    /\ slackSigSecret \in {SlackSecret, <<>>}
    /\ slackChannelID \in {AllowedChannel, <<>>}

\* log.Fatalf ends the process of the entry point.
Exit(ep, pc) == [alive EXCEPT ![ep] = IF pc = "fatal" THEN FALSE ELSE @]

\* A request arrives at an entry point and the handler runs to the call of
\* verifyWebHook.
Arrive(i, ep) ==
    /\ inv[i].pc \in {"idle", "done", "panic"}
    /\ alive[ep]
    /\ served < MaxRequests
    /\ \E entry \in Entries :
          LET o == IF ep = QueuePkg THEN QueueEntry(entry, NewWriter)
                   ELSE anerbotQueueEntry(entry, NewWriter)
          IN  /\ inv' = [inv EXCEPT ![i] =
                    [Idle EXCEPT !.pc = o.pc, !.ep = ep, !.entry = entry,
                                 !.w = o.w, !.fatal = o.fatal]]
              /\ alive' = Exit(ep, o.pc)
    /\ served' = served + 1
    /\ UNCHANGED <<topic, now, slackSigSecret, slackChannelID,
                 responseVars, probe>>

\* verifyWebHook(r, slackSigSecret) and the checks of its result.
Verify(i) ==
    /\ inv[i].pc = "verify"
    /\ alive[inv[i].ep]
    /\ \E timeStamp \in TimeStamps, body \in Bodies :
       \E slackSignature \in Signatures(timeStamp, body) :
          LET v == verifyWebHook(timeStamp, slackSignature, body,
                                 slackSigSecret, now)
              o == QueueVerify(v)
          IN  /\ inv' = [inv EXCEPT ![i] =
                    [@ EXCEPT !.pc = o.pc, !.fatal = o.fatal, !.verify = v,
                              !.timeStamp = timeStamp,
                              !.slackSignature = slackSignature,
                              !.body = body, !.at = now]]
              /\ alive' = Exit(inv[i].ep, o.pc)
    /\ UNCHANGED <<topic, now, served, slackSigSecret, slackChannelID,
                 responseVars, probe>>

\* The checks of the form, up to the call of publishMessage.
Validate(i) ==
    /\ inv[i].pc = "validate"
    /\ alive[inv[i].ep]
    /\ \E form \in Forms :
          LET o == IF inv[i].ep = QueuePkg
                   THEN QueueValidate(form, inv[i].w, slackChannelID)
                   ELSE anerbotQueueValidate(form, inv[i].w)
          IN  /\ inv' = [inv EXCEPT ![i] =
                    [@ EXCEPT !.pc = o.pc, !.fatal = o.fatal, !.w = o.w,
                              !.message = o.message, !.form = form,
                              !.formRead = TRUE]]
              /\ alive' = Exit(inv[i].ep, o.pc)
    /\ UNCHANGED <<topic, now, served, slackSigSecret, slackChannelID,
                 responseVars, probe>>

\* publishMessage returns; on nil the handler writes the acknowledgment, on
\* an error it calls log.Fatalf.
Publish(i) ==
    /\ inv[i].pc = "publishing"
    /\ alive[inv[i].ep]
    /\ \E outcome \in PublishOutcomes :
          LET p == publishMessage(inv[i].message, topic, outcome)
              ack == IF inv[i].ep = QueuePkg
                     THEN QueueAck(inv[i].w, inv[i].message)
                     ELSE anerbotQueueAck(inv[i].w, inv[i].message)
          IN  /\ topic' = p.topic
              /\ inv' = [inv EXCEPT ![i] =
                    IF p.err = "nil"
                    THEN [@ EXCEPT !.pc = "done", !.w = ack, !.publish = outcome]
                    ELSE [@ EXCEPT !.pc = "fatal", !.publish = outcome,
                                   !.fatal = "unable to publish message"]]
              /\ alive' = Exit(inv[i].ep, IF p.err = "nil" THEN "done" ELSE "fatal")
    /\ UNCHANGED <<now, served, slackSigSecret, slackChannelID,
                 responseVars, probe>>

Tick ==
    /\ now < NowSeconds * TicksPerSecond + MaxTicks
    /\ now' = now + 1
    /\ UNCHANGED <<inv, alive, topic, served, slackSigSecret, slackChannelID,
                 responseVars, probe>>

Next ==
    \/ \E i \in Slots : Arrive(i, QueuePkg)
    \/ \E i \in Slots : Arrive(i, AnerbotPkg)
    \/ \E i \in Slots : Verify(i)
    \/ \E i \in Slots : Validate(i)
    \/ \E i \in Slots : Publish(i)
    \/ Tick

Spec == Init /\ [][Next]_vars

(***************************************************************************)
(* The checks of the form taken alone: a configured handler of either      *)
(* package is handed a form and runs to the call of publishMessage.        *)
(***************************************************************************)
InitProbe ==
    /\ ResponseIdle
    /\ inv = [i \in Slots |-> Idle]
    /\ alive = [ep \in EntryPoints |-> TRUE]
    /\ topic = <<>>
    /\ now = NowSeconds * TicksPerSecond
    /\ served = 0
    /\ slackSigSecret = SlackSecret
    /\ slackChannelID = AllowedChannel
    /\ probe \in [ep : EntryPoints, form : ProbeForms, out : {Unprobed}]

ProbeValidate ==
    /\ probe.ep \in EntryPoints
    /\ probe.out.pc = "validate"
    /\ probe' = [probe EXCEPT !.out =
                    IF probe.ep = QueuePkg
                    THEN QueueValidate(probe.form, NewWriter, slackChannelID)
                    ELSE anerbotQueueValidate(probe.form, NewWriter)]
    /\ UNCHANGED <<queueVars, responseVars>>

NextProbe == ProbeValidate

SpecProbe == InitProbe /\ [][NextProbe]_vars

(***************************************************************************)
(* Response taken alone: the topic delivers messages, one at a time, to    *)
(* the function of either package.                                         *)
(***************************************************************************)
\* How many messages are delivered in a run, and how many records a lookup
\* returns at most.
MaxDeliveries == 2
MaxRecords == 2

DeliveredQueries == {<<"g">>, <<InvalidByte>>, <<>>}

\* What the topic delivers: a message publishMessage marshaled, or data that
\* did not come from Queue.
Deliveries ==
    {[sent |-> m, data |-> Marshal(m)] :
        m \in {queueMessage(q, u) : q \in DeliveredQueries, u \in {Url, BadUrl}}}
    \cup {[sent |-> NoMessage, data |-> d] :
            d \in {NotJSON,
                   JSONObject([tag \in Tags |-> Absent]),
                   JSONObject([tag \in Tags |->
                       IF tag = "query" THEN JSONNumber ELSE JSONString(Url)])}}

\* What queryAirtable returns.
LookupOutcomes ==
    {[err |-> e, records |-> <<>>] : e \in {"airtable.New", "ListRecords"}}
    \cup {[err |-> "nil", records |-> f] :
            f \in UNION {[1..n -> Features] : n \in 0..MaxRecords}}

\* What client.Do returns: an error, or a response with its status.
PostOutcomes ==
    {[err |-> TRUE, status |-> 0]}
    \cup {[err |-> FALSE, status |-> c] : c \in {200, 404, 500}}

InitResponse ==
    /\ ResponseIdle
    /\ probe = NoProbe
    /\ inv = [i \in Slots |-> Idle]
    /\ alive = [ep \in EntryPoints |-> TRUE]
    /\ topic = <<>>
    /\ now = NowSeconds * TicksPerSecond
    /\ served = 0
    /\ slackSigSecret = SlackSecret
    /\ slackChannelID = AllowedChannel

\* log.Fatalf ends the process of the package.
ResponseExit(r) ==
    [respAlive EXCEPT ![r.pkg] = IF r.pc = "fatal" THEN FALSE ELSE @]

\* The runtime calls Response(ctx, m) of package pkg.
Deliver(pkg) ==
    /\ resp.pc \in {"idle", "done", "fatal"}
    /\ respAlive[pkg]
    /\ delivered < MaxDeliveries
    /\ \E d \in Deliveries :
          resp' = [IdleResponse EXCEPT !.pc = "received", !.pkg = pkg,
                                       !.data = d.data, !.sent = d.sent]
    /\ delivered' = delivered + 1
    /\ UNCHANGED <<queueVars, respAlive, probe, prev>>

Deserialize ==
    /\ resp.pc = "received"
    /\ resp' = Response_Unmarshal(resp)
    /\ UNCHANGED <<queueVars, respAlive, delivered, probe, prev>>

LookupReturns ==
    /\ resp.pc = "querying"
    /\ \E o \in LookupOutcomes :
          /\ resp' = Response_Lookup(resp, o)
          /\ respAlive' = ResponseExit(Response_Lookup(resp, o))
    /\ UNCHANGED <<queueVars, delivered, probe, prev>>

\* client.Do cannot send to a URL without a scheme.
Reachable(url, o) == url = <<>> => o.err

FailurePostReturns ==
    /\ resp.pc = "failing"
    /\ \E o \in PostOutcomes :
          /\ Reachable(resp.message.ResponseUrl, o)
          /\ resp' = sendFailureMessage(resp, o)
          /\ respAlive' = ResponseExit(sendFailureMessage(resp, o))
    /\ UNCHANGED <<queueVars, delivered, probe, prev>>

PostReturns ==
    /\ resp.pc = "posting"
    /\ \E o \in PostOutcomes :
          /\ Reachable(resp.message.ResponseUrl, o)
          /\ resp' = Response_Post(resp, o)
    /\ UNCHANGED <<queueVars, respAlive, delivered, probe, prev>>

NextResponse ==
    \/ Deliver(ResponsePkg)
    \/ Deliver(AnerbotResponsePkg)
    \/ Deserialize
    \/ LookupReturns
    \/ FailurePostReturns
    \/ PostReturns

SpecResponse == InitResponse /\ [][NextResponse]_vars

\* Response runs on once it is called, and every call it makes to Airtable
\* or to the callback target returns.
FairResponse ==
    /\ WF_vars(Deserialize)
    /\ WF_vars(LookupReturns)
    /\ WF_vars(FailurePostReturns)
    /\ WF_vars(PostReturns)

SpecResponseFair == SpecResponse /\ FairResponse

(***************************************************************************)
(* Redelivery: the topic delivers at least once, so the message of an      *)
(* invocation that has ended may be delivered again to the same function,  *)
(* in the same process or, after a log.Fatalf, in a new one.               *)
(***************************************************************************)
\* Response that appends its queries to a slice of the package.
Redeliver_KeepsQueries(pkg) ==
    /\ resp.pc \in {"done", "fatal"}
    /\ resp.pkg = pkg
    /\ delivered < MaxDeliveries
    /\ prev' = Summary(resp)
    /\ resp' = [IdleResponse EXCEPT !.pc = "received", !.pkg = pkg,
                                    !.data = resp.data, !.sent = resp.sent,
                                    !.lookups = resp.lookups]
    /\ respAlive' = [respAlive EXCEPT ![pkg] = TRUE]
    /\ delivered' = delivered + 1
    /\ UNCHANGED <<queueVars, probe>>

\* The runtime calls Response(ctx, m) again with the message of the
\* invocation that has ended.  Every variable of Response is a local of the
\* call, so the new invocation starts from nothing but the message.
Redeliver(pkg) ==
    /\ resp.pc \in {"done", "fatal"}
    /\ resp.pkg = pkg
    /\ delivered < MaxDeliveries
    /\ prev' = Summary(resp)
    /\ resp' = [IdleResponse EXCEPT !.pc = "received", !.pkg = pkg,
                                    !.data = resp.data, !.sent = resp.sent]
    /\ respAlive' = [respAlive EXCEPT ![pkg] = TRUE]
    /\ delivered' = delivered + 1
    /\ UNCHANGED <<queueVars, probe>>

NextRedelivery ==
    \/ NextResponse
    \/ Redeliver(ResponsePkg)
    \/ Redeliver(AnerbotResponsePkg)

SpecRedelivery == InitResponse /\ [][NextRedelivery]_vars

(***************************************************************************)
(* What a request is, told from its parts and not from the handler's       *)
(* verdict.                                                                *)
(***************************************************************************)
Abs(x) == IF x < 0 THEN 0 - x ELSE x

\* The invocation has called verifyWebHook.
HeadersRead(i) == inv[i].verify.err # "not called"

Numeric(i) == ~ParseInt(inv[i].timeStamp).err

\* now - timestamp, in ticks, at the call of verifyWebHook.
Age(i) == inv[i].at - ParseInt(inv[i].timeStamp).value * TicksPerSecond

WindowTicks == WindowSeconds * TicksPerSecond

\* The header, without "v0=", is the hexadecimal HMAC of the request under
\* the configured secret.
SignatureMatches(i) ==
    LET d == DecodeString(TrimPrefix(inv[i].slackSignature, <<"v", "0", "=">>))
    IN  /\ ~d.err
        /\ d.bytes = getSignature(<<"v", "0", ":">> \o inv[i].timeStamp
                                      \o <<":">> \o inv[i].body,
                                  slackSigSecret)

\* publishMessage has been called by the invocation.
PublishCalled(i) == inv[i].pc = "publishing" \/ inv[i].publish # "none"

IsHangTight(data) ==
    /\ data.kind = "json"
    /\ data.text # <<>>
    /\ data.text[1] = "Hang tight - gathering results for \""

\* The "Hang tight" acknowledgment has been written to the caller.
Acknowledged(i) ==
    \E k \in 1..Len(inv[i].w.body) : IsHangTight(inv[i].w.body[k])

Replied(i, text) ==
    \E k \in 1..Len(inv[i].w.body) :
        /\ inv[i].w.body[k].kind = "json"
        /\ inv[i].w.body[k].response_type = "ephemeral"
        /\ inv[i].w.body[k].text = text

\* init() found both Slack variables in the environment.
Configured == slackSigSecret # <<>> /\ slackChannelID # <<>>

\* The form carries text, channel_id and response_url.
CompleteForm(i) ==
    /\ inv[i].formRead
    /\ Len(inv[i].form.text) = 1
    /\ Len(inv[i].form.channel_id) = 1
    /\ Len(inv[i].form.response_url) = 1

\* strings.TrimSpace(text) = "" for the texts of the model.
BlankText(text) == \A k \in 1..Len(text) : text[k] = " "

(***************************************************************************)
(* Claims.                                                                 *)
(***************************************************************************)

\* C1: verifyWebHook returns false for every request whose timestamp is more
\* than 300 seconds away from the current time in either direction, whether
\* or not the signature is correct.
C1_RejectsOutsideWindow ==
    \A i \in Slots :
        (Configured /\ HeadersRead(i) /\ Numeric(i) /\ Abs(Age(i)) > WindowTicks)
            => ~inv[i].verify.ok

\* C2: verifyWebHook returns true exactly when the header, without "v0=",
\* hex-decodes to the HMAC of "v0:" + timestamp + ":" + body under the secret
\* and |now - timestamp| <= 300 seconds.
C2_TrueIffSignedAndFresh ==
    \A i \in Slots :
        (Configured /\ HeadersRead(i) /\ Numeric(i))
            => (inv[i].verify.ok
                    <=> (SignatureMatches(i) /\ Abs(Age(i)) <= WindowTicks))

\* C3: the topic receives a message only from an invocation for which
\* verifyWebHook returned (true, nil); a request whose signature is wrong,
\* missing or not hexadecimal, or whose timestamp is not a number or is
\* stale, never reaches publishMessage.
C3_PublishOnlyVerified ==
    /\ [](\A i \in Slots :
            /\ PublishCalled(i) => inv[i].verify = [ok |-> TRUE, err |-> "nil"]
            /\ PublishCalled(i)
               => ~(HeadersRead(i)
                    /\ (\/ ~Numeric(i)
                        \/ Age(i) > WindowTicks
                        \/ inv[i].slackSignature = <<>>
                        \/ ~SignatureMatches(i))))
    /\ [][topic' # topic =>
            \E i \in Slots :
                /\ inv[i].pc = "publishing"
                /\ inv[i].verify = [ok |-> TRUE, err |-> "nil"]
                /\ SignatureMatches(i)
                /\ topic' = Append(topic, Marshal(inv[i].message))]_vars

\* C3 witness: after a verified request has been published, a request with a
\* bad signature or timestamp ended without a publish.
C3_Witness ==
    /\ Len(topic) = 1
    /\ \E i \in Slots :
        /\ HeadersRead(i)
        /\ ~SignatureMatches(i)
        /\ inv[i].pc = "fatal"
        /\ ~PublishCalled(i)

\* C4: the "Hang tight" acknowledgment is in the response only when
\* publishMessage has returned nil for that invocation, the message being on
\* the topic; never while the publish is pending or after it failed.
C4_AckOnlyAfterPublish ==
    \A i \in Slots :
        Acknowledged(i)
            => /\ inv[i].publish = "ok"
               /\ inv[i].pc = "done"
               /\ \E k \in 1..Len(topic) : topic[k] = Marshal(inv[i].message)

\* C4 witness: an invocation whose publish returned nil has written the
\* acknowledgment for its query.
C4_Witness ==
    \E i \in Slots :
        /\ Acknowledged(i)
        /\ inv[i].publish = "ok"
        /\ Replied(i, HangTightText(inv[i].message.Query))

\* C5: no HTTP success status (200 or 201) has been written for a request
\* before the outcome of its publish is known, nor when the publish failed.
C5_NoSuccessStatusBeforePublish ==
    \A i \in Slots :
        (Configured
         /\ (inv[i].pc = "publishing" \/ inv[i].publish \notin {"none", "ok"}))
            => inv[i].w.status \notin {200, 201}

\* C6: no per-request failure on the enqueue path terminates the process.
C6_ProcessSurvives ==
    \A i \in Slots :
        (Configured /\ inv[i].fatal # "none") => alive[inv[i].ep]

\* C7: a request whose method is not POST gets status 405 and the handler
\* stops: no publish, no acknowledgment, no other status.  Stated for the
\* requests that reach the check of the method and whose form parses.
C7_NonPostStops ==
    \A i \in Slots :
        (/\ Configured
         /\ inv[i].entry.method = "GET"
         /\ ~inv[i].entry.ping
         /\ ~inv[i].entry.bodyErr
         /\ ~inv[i].entry.formErr)
            => /\ inv[i].w.status = 405
               /\ inv[i].w.codes = <<405>>
               /\ ~PublishCalled(i)
               /\ ~Acknowledged(i)

\* C8: an authenticated request whose channel_id differs from the configured
\* channel is answered with the rejection naming that channel, and publishes
\* nothing.  Stated for the requests that carry all three form fields.
C8_WrongChannelRejected ==
    \A i \in Slots :
        (/\ Configured
         /\ CompleteForm(i)
         /\ inv[i].form.channel_id[1] # slackChannelID)
            => /\ inv[i].pc = "done"
               /\ Replied(i, WrongChannelText(slackChannelID))
               /\ ~PublishCalled(i)

\* C9: an authenticated request from the allowed channel whose text is the
\* empty string is answered with the empty-query error, and publishes
\* nothing.
C9_EmptyTextRejected ==
    \A i \in Slots :
        (/\ Configured
         /\ CompleteForm(i)
         /\ inv[i].form.channel_id = <<slackChannelID>>
         /\ inv[i].form.text = << <<>> >>)
            => /\ ~PublishCalled(i)
               /\ \/ Replied(i, EmptyQueryText)
                  \/ \E k \in 1..Len(inv[i].w.body) :
                        inv[i].w.body[k].text =
                            <<"Unable to search for an empty string">>

\* C10: Queue of package queue rejects an authenticated request from the
\* allowed channel whose text is empty after trimming white space, with the
\* empty-query reply and without a publish.
C10_BlankTextRejected ==
    \A i \in Slots :
        (/\ Configured
         /\ inv[i].ep = QueuePkg
         /\ CompleteForm(i)
         /\ inv[i].form.channel_id = <<slackChannelID>>
         /\ BlankText(inv[i].form.text[1]))
            => /\ Replied(i, EmptyQueryText)
               /\ ~PublishCalled(i)

\* part occurs in text.
Contains(text, part) ==
    \E k \in 0..(Len(text) - Len(part)) :
        SubSeq(text, k + 1, k + Len(part)) = part

\* The request is one Queue has to accept: signed under the configured
\* secret, stamped within the window, sent from the configured channel, with
\* a text and a response_url.
Accepted(i) ==
    /\ Configured
    /\ CompleteForm(i)
    /\ SignatureMatches(i)
    /\ Numeric(i)
    /\ Abs(Age(i)) <= WindowTicks
    /\ inv[i].form.channel_id[1] = slackChannelID
    /\ inv[i].form.text[1] # <<>>

\* The message an accepted request is to leave on the topic.
ExpectedMessage(i) ==
    Marshal(queueMessage(CanonicalQuery(inv[i].form.text[1]),
                         inv[i].form.response_url[1]))

\* The caller has been sent an ephemeral acknowledgment naming the query.
AcknowledgedQuery(i) ==
    \E k \in 1..Len(inv[i].w.body) :
        /\ IsHangTight(inv[i].w.body[k])
        /\ inv[i].w.body[k].response_type = "ephemeral"
        /\ Contains(inv[i].w.body[k].text, CanonicalQuery(inv[i].form.text[1]))

\* The handler has returned or the process has ended.
Finished(i) == inv[i].pc \in {"done", "fatal", "panic"}

\* C12 as stated: every accepted request ends with its message on the topic
\* and the acknowledgment naming the normalized query sent.
C12_EveryAcceptedPublished ==
    \A i \in Slots :
        (Accepted(i) /\ Finished(i)) =>
            /\ topic # <<>>
            /\ topic[Len(topic)] = ExpectedMessage(i)
            /\ AcknowledgedQuery(i)

\* C12: for every accepted request Queue calls publishMessage once with the
\* normalized text and the request's response_url; when publishMessage
\* returns nil, that call has put exactly one message, this one, on the
\* topic and the ephemeral acknowledgment contains the normalized query.
C12_AcceptedPublishesOnce ==
    /\ [](\A i \in Slots :
            Accepted(i) =>
                /\ PublishCalled(i)
                /\ Marshal(inv[i].message) = ExpectedMessage(i)
                /\ inv[i].publish = "ok" =>
                        /\ topic # <<>>
                        /\ topic[Len(topic)] = ExpectedMessage(i)
                        /\ AcknowledgedQuery(i))
    /\ [][\A i \in Slots :
            (inv[i].pc = "publishing" /\ inv'[i].publish = "ok") =>
                topic' = Append(topic, ExpectedMessage(i))]_vars
    /\ [][Len(topic') <= Len(topic) + 1]_vars

\* An accepted request with the legacy prefix has been published and
\* acknowledged.
C12_Witness ==
    \E i \in Slots :
        /\ Accepted(i)
        /\ inv[i].publish = "ok"
        /\ inv[i].form.text[1] = SearchPrefix \o <<"g">>
        /\ topic = <<ExpectedMessage(i)>>
        /\ AcknowledgedQuery(i)

\* The form of the probe carries text, channel_id and response_url, and the
\* handler has built its message from it.
ProbePublishes ==
    /\ probe.out.pc = "publishing"
    /\ Len(probe.form.text) = 1
    /\ Len(probe.form.channel_id) = 1
    /\ Len(probe.form.response_url) = 1

\* C11: every message Queue publishes for a request text it accepts (a text
\* that is not empty) has a non-empty query and a callback URL that is a
\* syntactically valid URL.
C11_PublishedMessageWellFormed ==
    (ProbePublishes /\ probe.ep = QueuePkg /\ probe.form.text[1] # <<>>) =>
        /\ probe.out.message.Query # <<>>
        /\ ~ParseURL(probe.out.message.ResponseUrl).err

\* C13: a text that begins with "search " is published without exactly that
\* one leading occurrence, a second "search " being kept; every other text,
\* "search" and "searching ..." included, is published as it is.
C13_StripsOneLeadingSearch ==
    ProbePublishes =>
        probe.out.message.Query = CanonicalQuery(probe.form.text[1])

\* "search search g" has been published as "search g".
C13_Witness ==
    /\ ProbePublishes
    /\ probe.form.text[1] = SearchPrefix \o SearchPrefix \o <<"g">>
    /\ probe.out.message.Query = SearchPrefix \o <<"g">>

\* C14: the prefix-stripping step of Queue, applied to a query it has
\* already normalized, returns the query unchanged.
C14_NormalizeIdempotent ==
    (ProbePublishes /\ probe.ep = QueuePkg) =>
        Normalize(probe.out.message.Query) = probe.out.message.Query

(***************************************************************************)
(* Claims about Response.                                                  *)
(***************************************************************************)
\* Response has read the delivered data.
Deserialized == resp.pc \notin {"idle", "received"}

\* Response has returned or the process has ended.
ResponseFinished == resp.pc \in {"done", "fatal"}

ValidUTF8(str) == \A k \in 1..Len(str) : str[k] # InvalidByte

\* C15 as stated: for every pair a message marshaled by publishMessage is
\* unmarshaled by Response to the same query and the same callback URL.
C15_RoundTripEveryPair ==
    (Deserialized /\ resp.sent # NoMessage) =>
        /\ resp.pc # "done" \/ resp.ret # "could not unmarshal message"
        /\ resp.message = resp.sent

\* C15: for every pair of valid UTF-8 strings a message marshaled by
\* publishMessage is unmarshaled by Response without an error to the same
\* query and the same callback URL.
C15_RoundTripValidUTF8 ==
    (/\ Deserialized
     /\ resp.sent # NoMessage
     /\ ValidUTF8(resp.sent.Query)
     /\ ValidUTF8(resp.sent.ResponseUrl)) =>
        /\ resp.pc # "done" \/ resp.ret # "could not unmarshal message"
        /\ resp.message = resp.sent

\* The message ("g", Url) has gone through the topic unchanged.
C15_Witness ==
    /\ resp.pc = "querying"
    /\ resp.sent = queueMessage(<<"g">>, Url)
    /\ resp.message = resp.sent

\* The message has a query and a callback URL that parses.
WellFormed(message) ==
    /\ message.Query # <<>>
    /\ message.ResponseUrl # <<>>
    /\ ~ParseURL(message.ResponseUrl).err

LookupFailed == resp.lookup \notin {"none", "nil"}

\* C16: for a well-formed message whose lookup returned an error, Response
\* ends having called client.Do exactly once, with a POST to the message's
\* response_url that carries the fixed failure text and no attachments.
C16_FailureNoticeOnce ==
    (LookupFailed /\ WellFormed(resp.message)) =>
        /\ resp.pc = "failing" => resp.posts = <<>>
        /\ ResponseFinished =>
              /\ Len(resp.posts) = 1
              /\ resp.posts[1].url = resp.message.ResponseUrl
              /\ resp.posts[1].body.text = FailureText
              /\ resp.posts[1].body.response_type = "ephemeral"
              /\ "attachments" \notin resp.posts[1].body.members
              /\ resp.posts[1].body.attachments = <<>>

\* ListRecords failed and the notice was posted and answered with 200.
C16_Witness ==
    /\ resp.pc = "done"
    /\ resp.lookup = "ListRecords"
    /\ WellFormed(resp.message)
    /\ Len(resp.posts) = 1
    /\ resp.posts[1].body.text = FailureText
    /\ resp.posts[1].outcome.status = 200

\* The POST of the failure notice could not be built or was not answered.
FailurePostFailed ==
    /\ LookupFailed
    /\ \/ ParseURL(resp.message.ResponseUrl).err
       \/ resp.posts # <<>> /\ resp.posts[Len(resp.posts)].outcome.err

\* C17: when the POST of the failure notice fails, Response still returns
\* the error of the lookup and the process goes on.
C17_FailureNoticeBestEffort ==
    (FailurePostFailed /\ ResponseFinished) =>
        /\ resp.pc = "done"
        /\ resp.ret = "error querying Airtable"
        /\ respAlive[resp.pkg]

\* The data is no JSON object, or gives a number where a string is read.
Undeserializable(data) ==
    \/ data.kind = "garbage"
    \/ \E tag \in Tags : data.members[tag].type = "number"

\* C18: for data that cannot be deserialized Response returns an error
\* without a lookup and without a POST.
C18_UndeserializableDropped ==
    (Deserialized /\ Undeserializable(resp.data)) =>
        /\ resp.pc = "done"
        /\ resp.ret = "could not unmarshal message"
        /\ resp.lookups = <<>>
        /\ resp.posts = <<>>

\* Data that is no JSON has been refused.
C18_Witness ==
    /\ resp.pc = "done"
    /\ resp.data = NotJSON
    /\ resp.ret = "could not unmarshal message"

\* The POST of the results has been answered with a status.
ResultPostAnswered ==
    /\ resp.lookup = "nil"
    /\ resp.posts # <<>>
    /\ ~resp.posts[Len(resp.posts)].outcome.err

\* C19: whatever status answers the POST of the results, Response returns
\* nil and has made no second POST.
C19_StatusNotInspected ==
    ResultPostAnswered =>
        /\ resp.pc = "done"
        /\ resp.ret = "nil"
        /\ Len(resp.posts) = 1

\* The callback target answered 500 and Response returned nil.
C19_Witness ==
    /\ ResultPostAnswered
    /\ resp.posts[1].outcome.status = 500
    /\ resp.ret = "nil"

\* C20: the response built for n records has n attachments in the order of
\* the records; for n = 0 its text is the "No items found" message and it
\* has no attachment, for n > 0 its text reports n.
C20_AttachmentPerRecord ==
    resp.lookup = "nil" =>
        LET n == Len(resp.records)
            res == resp.res
        IN  /\ Len(res.Attachments) = n
            /\ \A k \in 1..n :
                  /\ res.Attachments[k].Title = resp.records[k].Fields.Feature
                  /\ Contains(res.Attachments[k].TitleLink,
                              resp.records[k].AirtableID)
            /\ n = 0 =>
                  /\ res.Text = <<"No items found, try another search term">>
                  /\ res.Attachments = <<>>
            /\ n > 0 =>
                  /\ res.Text[1] = "Found "
                  /\ Contains(res.Text, Itoa(n))

\* Two different records have been turned into two attachments.
C20_Witness ==
    /\ resp.lookup = "nil"
    /\ Len(resp.records) = 2
    /\ resp.records[1] # resp.records[2]
    /\ Len(resp.res.Attachments) = 2
    /\ resp.res.Attachments[1].Title = resp.records[1].Fields.Feature

(***************************************************************************)
(* Claims about configuration and the form.                                *)
(***************************************************************************)
\* C21: a process started without its signing secret or its allowed
\* channel serves nothing, so no request is verified against an empty
\* secret or compared with an empty channel.
C21_NoServiceUnconfigured ==
    \A i \in Slots :
        /\ HeadersRead(i) => slackSigSecret # <<>>
        /\ (inv[i].ep = QueuePkg /\ inv[i].formRead
            /\ Len(inv[i].form.text) = 1 /\ Len(inv[i].form.channel_id) = 1)
           => slackChannelID # <<>>

\* C22: a verified request without text, channel_id or response_url is
\* turned down for itself: nothing is published, the handler does not panic
\* and the process goes on.
C22_MissingFieldRejected ==
    \A i \in Slots :
        (/\ Configured
         /\ inv[i].verify.ok
         /\ inv[i].formRead
         /\ ~CompleteForm(i)) =>
            /\ inv[i].pc \notin {"fatal", "panic"}
            /\ alive[inv[i].ep]
            /\ ~PublishCalled(i)

(***************************************************************************)
(* Claims about the course of one invocation of Response.                  *)
(***************************************************************************)
\* The delivered data is a message with a query and a URL that parses.
WellFormedDelivery ==
    /\ resp.pc # "idle"
    /\ ~Undeserializable(resp.data)
    /\ WellFormed(Unmarshal(resp.data).message)

\* The state of the message: Received, Deserialized (the lookup is under
\* way), Queried (the lookup has returned and a POST is under way), and the
\* two terminal states.
ResponseStage(r) ==
    CASE r.pc = "idle" -> "Idle"
      [] r.pc = "received" -> "Received"
      [] r.pc = "querying" -> "Deserialized"
      [] r.pc \in {"posting", "failing"} -> "Queried"
      [] r.pc \in {"done", "fatal"} ->
            IF r.posts # <<>> /\ ~r.posts[Len(r.posts)].outcome.err
            THEN "Delivered" ELSE "DeliveryFailed"

StageOrder ==
    {<<"Received", "Deserialized">>, <<"Deserialized", "Queried">>,
     <<"Queried", "Delivered">>, <<"Queried", "DeliveryFailed">>,
     <<"Delivered", "Received">>, <<"DeliveryFailed", "Received">>}

\* C23: an invocation of Response on a well-formed message goes from
\* Received to Deserialized to Queried and then, when its calls return, to
\* Delivered or DeliveryFailed; no POST is made before the lookup has
\* returned, and a terminal state is left only by the next delivery.
C23_ResponseStateMachine ==
    /\ [](WellFormedDelivery =>
            /\ resp.posts # <<>> => resp.lookup # "none"
            /\ ResponseStage(resp) \in {"Received", "Deserialized"}
                  => resp.posts = <<>>
            /\ ResponseStage(resp) = "Received" => resp.lookups = <<>>
            /\ ResponseFinished =>
                  Len(resp.lookups) = 1 /\ Len(resp.posts) = 1)
    /\ [][WellFormedDelivery =>
            \/ resp' = resp
            \/ <<ResponseStage(resp), ResponseStage(resp')>> \in StageOrder]_vars
    /\ (WellFormedDelivery /\ resp.pc = "received")
          ~> (WellFormedDelivery /\ ResponseFinished)

\* A well-formed message has been looked up and its results delivered.
C23_Witness ==
    /\ WellFormedDelivery
    /\ ResponseStage(resp) = "Delivered"
    /\ resp.lookup = "nil"
    /\ Len(resp.lookups) = 1

(***************************************************************************)
(* Claims about the verdicts of verifyWebHook and the replies of Queue.    *)
(***************************************************************************)
\* The signature header, without "v0=", is a hexadecimal string.
SignatureIsHex(i) ==
    ~DecodeString(TrimPrefix(inv[i].slackSignature, <<"v", "0", "=">>)).err

\* C29: each failing check of verifyWebHook gives false with the error of
\* that check (timestamp not a number, timestamp outside the window,
\* signature blank, signature not hexadecimal), and a hexadecimal signature
\* that does not match gives false without an error.
C29_ErrorNamesCheck ==
    \A i \in Slots :
        (Configured /\ HeadersRead(i)) =>
            LET v == inv[i].verify
                fresh == Numeric(i) /\ Abs(Age(i)) <= WindowTicks
            IN  /\ ~Numeric(i) => v = [ok |-> FALSE, err |-> "strconv.ParseInt"]
                /\ (Numeric(i) /\ ~fresh)
                      => v = [ok |-> FALSE, err |-> "checkTimestamp"]
                /\ (fresh /\ inv[i].slackSignature = <<>>)
                      => v = [ok |-> FALSE, err |-> "blank"]
                /\ (fresh /\ inv[i].slackSignature # <<>> /\ ~SignatureIsHex(i))
                      => v = [ok |-> FALSE, err |-> "hex.DecodeString"]
                /\ (fresh /\ inv[i].slackSignature # <<>> /\ SignatureIsHex(i)
                    /\ ~SignatureMatches(i))
                      => v = [ok |-> FALSE, err |-> "nil"]

\* A reply of the validation: a JSON reply, or the plain empty-query error.
ValidationReply(data) ==
    \/ data.kind = "json"
    \/ data.kind = "plain"
       /\ data.text = <<"Unable to search for an empty string">>

\* C30: Queue writes a reply of its validation only to a request whose
\* signature verifyWebHook has found to match, and no other caller is sent
\* a body with the allowed channel in it.
C30_RepliesOnlyVerified ==
    \A i \in Slots :
        \A k \in 1..Len(inv[i].w.body) :
            (\/ ValidationReply(inv[i].w.body[k])
             \/ slackChannelID # <<>>
                /\ Contains(inv[i].w.body[k].text, slackChannelID))
                => /\ inv[i].verify = [ok |-> TRUE, err |-> "nil"]
                   /\ SignatureMatches(i)

\* A verified request from another channel has been told the allowed one.
C30_Witness ==
    \E i \in Slots :
        /\ Configured
        /\ SignatureMatches(i)
        /\ inv[i].pc = "done"
        /\ Replied(i, WrongChannelText(slackChannelID))
        /\ Contains(inv[i].w.body[1].text, slackChannelID)

(***************************************************************************)
(* Queue under concurrent requests: net/http runs every request of a       *)
(* process in a goroutine of its own, so invocations of one process        *)
(* interleave.  The first slot takes valid requests only, the second takes *)
(* any request.                                                            *)
(***************************************************************************)
ConcurrentSlots == {1, 2}
ValidSlot == 1

ValidEntry == [ping |-> FALSE, bodyErr |-> FALSE, method |-> "POST", formErr |-> FALSE]
ValidTimeStamp == Itoa(NowSeconds)
ValidBody == <<"g">>
ValidForm ==
    [text |-> <<<<"g">>>>, channel_id |-> <<AllowedChannel>>,
     response_url |-> <<Url>>]

\* r is an invocation on a POST that Slack has signed just now, as far as
\* the handler has read the request.
SignedRequest(r) ==
    /\ r.entry = ValidEntry
    /\ \/ r.timeStamp = Unread
       \/ /\ r.timeStamp = ValidTimeStamp
          /\ r.body = ValidBody
          /\ r.slackSignature =
                version \o <<"=">> \o Sign(SlackSecret, ValidTimeStamp, ValidBody, HexLower)

\* r is an invocation on a request Queue has to accept, as far as the
\* handler has read the request.
ValidRequest(r) ==
    /\ SignedRequest(r)
    /\ r.formRead => r.form = ValidForm

InitConcurrent ==
    /\ ResponseIdle
    /\ probe = NoProbe
    /\ inv = [i \in ConcurrentSlots |-> Idle]
    /\ alive = [ep \in EntryPoints |-> TRUE]
    /\ topic = <<>>
    /\ now = NowSeconds * TicksPerSecond
    /\ served = 0
    /\ slackSigSecret = SlackSecret
    /\ slackChannelID = AllowedChannel

\* The request of the valid slot is a valid one.
ValidInSlot(i) == i = ValidSlot => ValidRequest(inv'[i])

NextConcurrent ==
    \/ \E i \in ConcurrentSlots : Arrive(i, QueuePkg) /\ ValidInSlot(i)
    \/ \E i \in ConcurrentSlots : Verify(i) /\ ValidInSlot(i)
    \/ \E i \in ConcurrentSlots : Validate(i) /\ ValidInSlot(i)
    \/ \E i \in ConcurrentSlots : Publish(i)

SpecConcurrent == InitConcurrent /\ [][NextConcurrent]_vars

(***************************************************************************)
(* Queue, the topic and Response together: signed requests arrive at       *)
(* Queue, the messages it publishes are delivered in order to Response,    *)
(* and a process ended by log.Fatalf is replaced for the next delivery.    *)
(***************************************************************************)
PipelineForms ==
    [text : Optional({<<"g">>}),
     channel_id : Optional({AllowedChannel, OtherChannel}),
     response_url : Optional({Url, BadUrl})]

SignedInSlot(i) == SignedRequest(inv'[i])

\* The checks of the form, up to the call of publishMessage.
ValidatePipeline(i) ==
    /\ inv[i].pc = "validate"
    /\ alive[inv[i].ep]
    /\ \E form \in PipelineForms :
          LET o == QueueValidate(form, inv[i].w, slackChannelID)
          IN  /\ inv' = [inv EXCEPT ![i] =
                    [@ EXCEPT !.pc = o.pc, !.fatal = o.fatal, !.w = o.w,
                              !.message = o.message, !.form = form,
                              !.formRead = TRUE]]
              /\ alive' = Exit(inv[i].ep, o.pc)
    /\ UNCHANGED <<topic, now, served, slackSigSecret, slackChannelID,
                 responseVars, probe>>

\* The topic hands its next message to Response.
DeliverNext ==
    /\ resp.pc \in {"idle", "done", "fatal"}
    /\ delivered < Len(topic)
    /\ resp' = [IdleResponse EXCEPT !.pc = "received", !.pkg = ResponsePkg,
                                    !.data = topic[delivered + 1]]
    /\ respAlive' = [respAlive EXCEPT ![ResponsePkg] = TRUE]
    /\ delivered' = delivered + 1
    /\ UNCHANGED <<queueVars, probe, prev>>

NextPipeline ==
    \/ \E i \in Slots : Arrive(i, QueuePkg) /\ SignedInSlot(i)
    \/ \E i \in Slots : Verify(i) /\ SignedInSlot(i)
    \/ \E i \in Slots : ValidatePipeline(i)
    \/ \E i \in Slots : Publish(i)
    \/ DeliverNext
    \/ Deserialize
    \/ LookupReturns
    \/ FailurePostReturns
    \/ PostReturns

SpecPipeline == InitResponse /\ [][NextPipeline]_vars

\* Queue runs on once it is called, the topic delivers every message it
\* holds, Response runs on once it is called, and every call returns.
FairPipeline ==
    /\ WF_vars(\E i \in Slots : Verify(i))
    /\ WF_vars(\E i \in Slots : ValidatePipeline(i))
    /\ WF_vars(\E i \in Slots : Publish(i))
    /\ WF_vars(DeliverNext)
    /\ FairResponse

SpecPipelineFair == SpecPipeline /\ FairPipeline

\* The handler is between its entry and its return.
UnderWay(i) == inv[i].pc \in {"verify", "validate", "publishing"}

\* C26: a valid request served next to other requests of the process gets
\* the outcome it gets alone; in particular, while its invocation is under
\* way no other invocation has ended the process it runs in.
C26_ValidUndisturbed ==
    (UnderWay(ValidSlot) /\ ValidRequest(inv[ValidSlot]))
        => alive[inv[ValidSlot].ep]

(***************************************************************************)
(* Statelessness.                                                          *)
(***************************************************************************)
\* The invocation under way was given what the one before it was given: the
\* same message, by the same function, and the same result of the lookup.
SameAsBefore ==
    /\ prev.pkg = resp.pkg
    /\ prev.data = resp.data
    /\ prev.lookup = resp.lookup
    /\ prev.records = resp.records

Published ==
    IF served = 0 THEN 0
    ELSE IF \E i \in Slots : inv[i].publish # "none" THEN served
    ELSE served - 1

\* C24: nothing is tried twice: an invocation of Response makes at most one
\* lookup and at most one POST to the callback target, the results or the
\* failure text, and an invocation of Queue publishes at most one message.
C24_NoRetries ==
    /\ Len(resp.lookups) <= 1
    /\ Len(resp.posts) <= 1
    /\ Len(topic) <= Published

\* Two requests have been published once each, and Response has looked up
\* and posted once for the second.
C24_Witness ==
    /\ Len(topic) = 2
    /\ delivered = 2
    /\ Len(resp.lookups) = 1
    /\ Len(resp.posts) = 1
    /\ resp.pc = "done"

\* A request to url has been sent to the callback target by the invocation
\* of Response.
Posted(url) == \E k \in 1..Len(resp.posts) : resp.posts[k].url = url

\* C25: when Queue has acknowledged a request with "Hang tight", the topic
\* delivers and every call returns, then a POST to the response_url of the
\* request is made in the end.
C25_AcknowledgedAnswered ==
    \A url \in {Url, BadUrl} :
        (\E i \in Slots : Acknowledged(i) /\ inv[i].message.ResponseUrl = url)
            ~> Posted(url)

(***************************************************************************)
(* The prefix of the signature header, and the ping.                       *)
(***************************************************************************)
\* C31: a signature header that does not begin with "v0=" never verifies,
\* not even when it is the hexadecimal HMAC of the request.
C31_PrefixRequired ==
    \A i \in Slots :
        (/\ Configured
         /\ HeadersRead(i)
         /\ ~HasPrefix(inv[i].slackSignature, version \o <<"=">>))
            => ~inv[i].verify.ok

\* The invocation is one of Queue of package queue on a request with a
\* non-empty ping parameter.
Pinged(i) == inv[i].ep = QueuePkg /\ inv[i].entry.ping

\* C32: Queue of package queue returns at once from a request with a
\* non-empty ping parameter, whatever the method and the body: nothing is
\* written to the caller, verifyWebHook is not called, the form is not
\* checked, nothing is published and the process goes on.
C32_PingReturnsAtOnce ==
    \A i \in Slots :
        Pinged(i) =>
            /\ inv[i].pc = "done"
            /\ inv[i].w = NewWriter
            /\ inv[i].fatal = "none"
            /\ inv[i].verify = NotVerified
            /\ ~inv[i].formRead
            /\ ~PublishCalled(i)
            /\ alive[inv[i].ep]

\* A ping has been answered that was no POST and whose body could not be
\* read.
C32_Witness ==
    \E i \in Slots :
        /\ Pinged(i)
        /\ inv[i].entry.method = "GET"
        /\ inv[i].entry.bodyErr
        /\ inv[i].pc = "done"

====
